---- MODULE Spec2Model ----
(***************************************************************************)
(* Model of the message neutralization core of leo-backend:                *)
(*   src/src/ai_modules/message_rephraser_hf.py  (local rules variant,     *)
(*       the one imported by src/src/routes/ai_routes.py)                  *)
(*   src/src/ai_modules/message_rephraser.py     (OpenAI variant)          *)
(*   src/src/ai_modules/sentiment_analyzer.py                              *)
(* and of the routes of src/src/routes/ai_routes.py that share the         *)
(* instances of these classes and keep the history of Message rows.        *)
(*                                                                         *)
(* Python strings are TLA+ strings and every string function works on      *)
(* characters (Len, SubSeq and \o on strings).  A Python value that may be *)
(* None is a record [null, str].  A call that raises returns a record      *)
(* whose field raised is TRUE.                                             *)
(***************************************************************************)
EXTENDS Integers, Sequences, FiniteSets, TLC

(***************************************************************************)
(* Bounds of the model.                                                    *)
(***************************************************************************)
\* a request message is the concatenation of at most MaxPieces pieces
MaxPieces == 2

(***************************************************************************)
(* Characters and the builtin str methods.                                 *)
(***************************************************************************)
UpperChars == "ABCDEFGHIJKLMNOPQRSTUVWXYZÀÂÇÉÈÊÎÔÙ"
LowerChars == "abcdefghijklmnopqrstuvwxyzàâçéèêîôù"
DigitChars == "0123456789_"

CharsOf(s) == {SubSeq(s, i, i) : i \in 1..Len(s)}

UpperSet == CharsOf(UpperChars)
LowerSet == CharsOf(LowerChars)
WordSet  == UpperSet \cup LowerSet \cup CharsOf(DigitChars)
\* the characters str.strip() removes and the regex class \s matches
Whitespace == {" ", "\n", "\t"}

Min(S) == CHOOSE x \in S : \A y \in S : x <= y
Max(S) == CHOOSE x \in S : \A y \in S : x >= y

At(s, i) == SubSeq(s, i, i)

\* the slice s[i-1:j] of Python, clipped to the string
Slice(s, i, j) ==
    IF i > Len(s) \/ j < i THEN ""
    ELSE SubSeq(s, i, IF j > Len(s) THEN Len(s) ELSE j)

LowerChar(c) ==
    IF c \in UpperSet
    THEN LET i == CHOOSE k \in 1..Len(UpperChars) : At(UpperChars, k) = c
         IN  At(LowerChars, i)
    ELSE c

\* str.lower()
RECURSIVE lower(_)
lower(s) ==
    IF Len(s) = 0 THEN ""
    ELSE IF Len(s) = 1 THEN LowerChar(s)
    ELSE LET h == Len(s) \div 2
         IN  lower(SubSeq(s, 1, h)) \o lower(SubSeq(s, h + 1, Len(s)))

\* str.isupper(): at least one cased character and no lowercase one
isupper(s) ==
    /\ \A i \in 1..Len(s) : At(s, i) \notin LowerSet
    /\ \E i \in 1..Len(s) : At(s, i) \in UpperSet

\* the operator "sub in s" on strings
Contains(s, sub) ==
    \E i \in 1..(Len(s) - Len(sub) + 1) : SubSeq(s, i, i + Len(sub) - 1) = sub

\* str.count(c) for a one-character c
count(s, c) == Cardinality({i \in 1..Len(s) : At(s, i) = c})

\* str.strip()
strip(s) ==
    LET keep == {i \in 1..Len(s) : At(s, i) \notin Whitespace}
    IN  IF keep = {} THEN "" ELSE SubSeq(s, Min(keep), Max(keep))

\* str.startswith / str.endswith
startswith(s, p) == Len(s) >= Len(p) /\ SubSeq(s, 1, Len(p)) = p
endswith(s, p) == Len(s) >= Len(p) /\ SubSeq(s, Len(s) - Len(p) + 1, Len(s)) = p

\* A value received as 'message': a str, None, or a JSON number (5).
Str(s) == [kind |-> "str", str |-> s]
NoneValue == [kind |-> "none", str |-> ""]
NumValue == [kind |-> "num", str |-> ""]
IsStr(v) == v.kind = "str"
\* Python truthiness: None and "" are falsy, the number 5 is truthy
Truthy(v) == v.kind = "num" \/ (v.kind = "str" /\ v.str # "")

RECURSIVE Rep(_, _)
Rep(s, n) ==
    IF n = 0 THEN ""
    ELSE IF n = 1 THEN s
    ELSE Rep(s, n \div 2) \o Rep(s, n - (n \div 2))

(***************************************************************************)
(* The regular expressions of the sources (module re).                     *)
(***************************************************************************)
\* first index i >= from where sub occurs in s, 0 when there is none
Find(s, sub, from) ==
    LET hits == {i \in from..(Len(s) - Len(sub) + 1) :
                    SubSeq(s, i, i + Len(sub) - 1) = sub}
    IN  IF hits = {} THEN 0 ELSE Min(hits)

\* \b between s[i-1] and s[i]
WordBoundary(s, i) ==
    LET before == i > 1 /\ i - 1 <= Len(s) /\ At(s, i - 1) \in WordSet
        after  == i >= 1 /\ i <= Len(s) /\ At(s, i) \in WordSet
    IN  before # after

\* re.sub(re.escape(pat), repl, s, flags=re.IGNORECASE) for a lowercase
\* literal pat: leftmost non-overlapping occurrences, compared case-folded
RECURSIVE SubLiteralFrom(_, _, _, _, _)
SubLiteralFrom(s, low, pat, repl, from) ==
    LET Leftmost(i) ==
            IF i = 0 THEN SubSeq(s, from, Len(s))
            ELSE SubSeq(s, from, i - 1) \o repl
                    \o SubLiteralFrom(s, low, pat, repl, i + Len(pat))
    IN  Leftmost(Find(low, pat, from))

SubLiteral(s, pat, repl) == SubLiteralFrom(s, lower(s), pat, repl, 1)

\* re.sub(r'c{n,}', repl, s) for a set C of characters: every maximal run of
\* at least n characters of C becomes repl
RunEnd(s, C, i) ==
    LET stops == {j \in i..Len(s) : At(s, j) \notin C}
    IN  IF stops = {} THEN Len(s) ELSE Min(stops) - 1

RECURSIVE SubRunsFrom(_, _, _, _, _)
SubRunsFrom(s, C, n, repl, from) ==
    LET Leftmost(starts) ==
            IF starts = {} THEN SubSeq(s, from, Len(s))
            ELSE SubSeq(s, from, Min(starts) - 1) \o repl
                    \o SubRunsFrom(s, C, n, repl, RunEnd(s, C, Min(starts)) + 1)
    IN  Leftmost({i \in from..Len(s) :
                     /\ At(s, i) \in C
                     /\ RunEnd(s, C, i) - i + 1 >= n
                     /\ (i = from \/ At(s, i - 1) \notin C)})

SubRuns_LongerRuns(s, C, n, repl) == SubRunsFrom(s, C, n + 1, repl, 1)

SubRuns(s, C, n, repl) == SubRunsFrom(s, C, n, repl, 1)

\* index of the last character of the line that holds position i
\* ('.' matches every character except the newline)
LineEnd(s, i) ==
    LET nl == {j \in i..Len(s) : At(s, j) = "\n"}
    IN  IF nl = {} THEN Len(s) ELSE Min(nl) - 1

\* A grammar rule is a record
\*   [kind, lit, repl, keep]
\* kind = "rest" : r'\b<lit>(.+)'    the literal, then the rest of the line
\* kind = "word" : r'\b<lit>\b'
\* kind = "lead" : r'\b<lit>'
\* kind = "accuse" : r'\btu (ne |n\')?(.+?) (jamais|toujours)'
\* keep tells whether the replacement ends with the captured group.
\* MatchAt gives [e |-> index of the last matched character (0: no match
\* at i), g |-> the text of the group the replacement refers to].
NoMatch == [e |-> 0, g |-> ""]

MatchLit(s, low, i, r) ==
    LET m == Len(r.lit)
    IN  IF ~(i + m - 1 <= Len(s) /\ Slice(low, i, i + m - 1) = r.lit
              /\ WordBoundary(s, i))
        THEN NoMatch
        ELSE IF r.kind = "rest"
        THEN IF i + m <= Len(s) /\ At(s, i + m) # "\n"
             THEN [e |-> LineEnd(s, i + m),
                   g |-> SubSeq(s, i + m, LineEnd(s, i + m))]
             ELSE NoMatch
        ELSE IF r.kind = "word"
        THEN IF WordBoundary(s, i + m) THEN [e |-> i + m - 1, g |-> ""]
             ELSE NoMatch
        ELSE [e |-> i + m - 1, g |-> ""]

\* the lazy group (.+?) starting at p, followed by ' jamais' or ' toujours'
AccuseTail(s, low, p) ==
    LET Shortest(ends) ==
            IF p > Len(s) \/ At(s, p) = "\n" \/ ends = {} THEN NoMatch
            ELSE [e |-> IF Slice(low, Min(ends), Min(ends) + 6) = " jamais"
                        THEN Min(ends) + 6 ELSE Min(ends) + 8,
                  g |-> SubSeq(s, p, Min(ends) - 1)]
    IN  Shortest({j \in (p + 1)..LineEnd(s, p) :
                     \/ Slice(low, j, j + 6) = " jamais"
                     \/ Slice(low, j, j + 8) = " toujours"})

MatchAccuse(s, low, i) ==
    IF ~(Slice(low, i, i + 2) = "tu " /\ WordBoundary(s, i)) THEN NoMatch
    ELSE LET p0 == i + 3
             \* the optional group is tried first, then left out
             Prefer(with) == IF with.e # 0 THEN with ELSE AccuseTail(s, low, p0)
         IN  Prefer(IF Slice(low, p0, p0 + 2) = "ne "
                    THEN AccuseTail(s, low, p0 + 3)
                    ELSE IF Slice(low, p0, p0 + 1) = "n'"
                    THEN AccuseTail(s, low, p0 + 2)
                    ELSE NoMatch)

MatchAt(s, low, i, r) ==
    IF r.kind = "accuse" THEN MatchAccuse(s, low, i) ELSE MatchLit(s, low, i, r)

\* re.sub(pattern, replacement, s, flags=re.IGNORECASE) for one grammar rule
RECURSIVE SubRuleFrom(_, _, _, _)
SubRuleFrom(s, low, r, from) ==
    LET Replace(i, m) ==
            SubSeq(s, from, i - 1) \o r.repl
               \o (IF r.keep THEN m.g ELSE "")
               \o SubRuleFrom(s, low, r, m.e + 1)
        Leftmost(hits) ==
            IF hits = {} THEN SubSeq(s, from, Len(s))
            ELSE Replace(Min(hits), MatchAt(s, low, Min(hits), r))
    IN  Leftmost({i \in from..Len(s) : MatchAt(s, low, i, r).e # 0})

SubRule(s, r) == SubRuleFrom(s, lower(s), r, 1)

(***************************************************************************)
(* message_rephraser_hf.py: the lexicon and the rule rewriter.             *)
(***************************************************************************)
\* self.trigger_replacements, in insertion order (dict order)
trigger_replacements == <<
    <<"comme d'habitude", "comme convenu précédemment">>,
    <<"encore", "à nouveau">>,
    <<"jamais", "rarement">>,
    <<"toujours", "souvent">>,
    <<"à cause de toi", "en raison de cette situation">>,
    <<"t'as qu'à", "il serait possible de">>,
    <<"tu fais exprès", "il semble y avoir un malentendu">>,
    <<"c'est ta faute", "cette situation nécessite notre attention">>,
    <<"tu ne comprends rien", "il y a peut-être besoin de clarification">>,
    <<"tu m'énerves", "cette situation est difficile">>,
    <<"arrête de", "il serait préférable de ne pas">>,
    <<"tu dois", "il serait bien de">>,
    <<"pourquoi tu", "serait-il possible de">> >>

\* the sequence seq without the elements that fail the test keepIt
RECURSIVE SelectIdx(_, _, _)
SelectIdx(seq, keep, k) ==
    IF k > Len(seq) THEN << >>
    ELSE (IF k \in keep THEN <<seq[k]>> ELSE << >>) \o SelectIdx(seq, keep, k + 1)

\* detect_triggers(text)
detect_triggers_NoCaps(text) ==
    LET text_lower == lower(text)
        hit == {k \in 1..Len(trigger_replacements) :
                   Contains(text_lower, trigger_replacements[k][1])}
        found == [k \in 1..Len(trigger_replacements) |->
                     trigger_replacements[k][1]]
    IN  SelectIdx(found, hit, 1)
          \o (IF Contains(text, "!") \/ Contains(text, "?")
              THEN <<"ponctuation excessive">> ELSE << >>)

detect_triggers(text) ==
    LET text_lower == lower(text)
        hit == {k \in 1..Len(trigger_replacements) :
                   Contains(text_lower, trigger_replacements[k][1])}
        found == [k \in 1..Len(trigger_replacements) |->
                     trigger_replacements[k][1]]
    IN  SelectIdx(found, hit, 1)
          \o (IF Contains(text, "!") \/ Contains(text, "?")
              THEN <<"ponctuation excessive">> ELSE << >>)
          \o (IF isupper(text) THEN <<"majuscules excessives">> ELSE << >>)

\* the local list grammar_rules of apply_calming_rules
grammar_rules == <<
    [kind |-> "accuse", lit |-> "tu ", repl |-> "il serait bien de ", keep |-> TRUE],
    [kind |-> "rest", lit |-> "tu es ", repl |-> "il semble que", keep |-> FALSE],
    [kind |-> "rest", lit |-> "pourquoi tu ", repl |-> "serait-il possible de ", keep |-> TRUE],
    [kind |-> "word", lit |-> "toujours", repl |-> "parfois", keep |-> FALSE],
    [kind |-> "word", lit |-> "jamais", repl |-> "rarement", keep |-> FALSE],
    [kind |-> "rest", lit |-> "arrête de ", repl |-> "il serait préférable de ne pas ", keep |-> TRUE],
    [kind |-> "rest", lit |-> "tu dois ", repl |-> "il serait bien de ", keep |-> TRUE],
    [kind |-> "lead", lit |-> "c'est ta faute", repl |-> "pour le bien de notre enfant", keep |-> FALSE],
    [kind |-> "lead", lit |-> "à cause de toi", repl |-> "dans l'intérêt de notre enfant", keep |-> FALSE] >>

\* for trigger, replacement in table: result = re.sub(re.escape(trigger), ...)
\* (the test on Len(next) makes TLC evaluate next before the next step)
RECURSIVE SubstituteLexicon(_, _, _)
SubstituteLexicon(s, table, k) ==
    IF k > Len(table) THEN s
    ELSE LET Continue(next) ==
                 IF Len(next) >= 0 THEN SubstituteLexicon(next, table, k + 1)
                 ELSE next
         IN  Continue(SubLiteral(s, table[k][1], table[k][2]))

\* for pattern, replacement in grammar_rules: result = re.sub(pattern, ...)
RECURSIVE ApplyGrammar(_, _)
ApplyGrammar(s, k) ==
    IF k > Len(grammar_rules) THEN s
    ELSE LET Continue(next) ==
                 IF Len(next) >= 0 THEN ApplyGrammar(next, k + 1) ELSE next
         IN  Continue(SubRule(s, grammar_rules[k]))

courtesy_markers == {"merci", "cordialement", "s'il te plaît"}

\* the politeness closure at the end of apply_calming_rules
PolitenessClosure_AlwaysPeriod(result) ==
    IF ~(\E word \in courtesy_markers : Contains(lower(result), word))
    THEN result \o "." \o " Merci."
    ELSE result

PolitenessClosure(result) ==
    IF ~(\E word \in courtesy_markers : Contains(lower(result), word))
    THEN (IF ~endswith(result, ".") THEN result \o "." ELSE result) \o " Merci."
    ELSE result

\* apply_calming_rules(text)
\* the result before the politeness closure: lexicon, grammar rules,
\* punctuation and whitespace
CalmedText(text) ==
    LET r1 == SubstituteLexicon(text, trigger_replacements, 1)
        r2 == ApplyGrammar(r1, 1)
        r3 == SubRuns(r2, {"!"}, 2, ".")
        r4 == SubRuns(r3, {"?"}, 2, "?")
    IN  strip(SubRuns(r4, Whitespace, 1, " "))

apply_calming_rules(text) == PolitenessClosure(CalmedText(text))

\* create_formal_version(message)
FormalPickup == "Je souhaiterais organiser la récupération de notre enfant selon les modalités convenues. Merci de me confirmer les détails."
FormalDelay == "Il y a eu un contretemps. Je vous tiendrai informé(e) de l'heure d'arrivée. Merci de votre compréhension."
FormalDifficulty == "Il semble y avoir une situation qui nécessite notre attention. Pourrions-nous en discuter dans l'intérêt de notre enfant ?"
FormalHealth == "Je vous informe d'une question concernant la santé de notre enfant. Merci de me tenir au courant de votre côté également."
FormalGeneric == "J'ai un point à aborder concernant notre enfant. Pourrions-nous en discuter de manière constructive ? Merci."

create_formal_version_DelayFirst(message) ==
    LET low == lower(message)
        any(words) == \E word \in words : Contains(low, word)
    IN  IF any({"retard", "en retard", "attendre"}) THEN FormalDelay
        ELSE IF any({"récupérer", "chercher", "prendre"}) THEN FormalPickup
        ELSE IF any({"problème", "souci", "difficulté"}) THEN FormalDifficulty
        ELSE IF any({"médecin", "docteur", "santé", "malade"}) THEN FormalHealth
        ELSE FormalGeneric

create_formal_version(message) ==
    LET low == lower(message)
        any(words) == \E word \in words : Contains(low, word)
    IN  IF any({"récupérer", "chercher", "prendre"}) THEN FormalPickup
        ELSE IF any({"retard", "en retard", "attendre"}) THEN FormalDelay
        ELSE IF any({"problème", "souci", "difficulté"}) THEN FormalDifficulty
        ELSE IF any({"médecin", "docteur", "santé", "malade"}) THEN FormalHealth
        ELSE FormalGeneric

\* the value of an empty dict {} and of a call that raised
EmptyDict == [empty |-> TRUE]
Raised(exc) == [raised |-> TRUE, exception |-> exc]

\* generate_recommendation(triggers, options)
RecoStrong == "Votre message contient plusieurs éléments de tension. Nous recommandons fortement d'utiliser une des reformulations proposées."
RecoSoft == "Votre message pourrait être mal interprété. Une reformulation pourrait améliorer la communication."
RecoAppropriate == "Votre message est déjà approprié pour la communication."
RecoOptional == "Votre message est assez neutre. Les reformulations sont optionnelles."

\* a recommendation that is strong from two triggers on
generate_recommendation_StrongAtTwo(triggers, options) ==
    IF Len(triggers) > 1 THEN RecoStrong
    ELSE IF Len(triggers) > 0 THEN RecoSoft
    ELSE IF options = << >> THEN RecoAppropriate
    ELSE RecoOptional

generate_recommendation(triggers, options) ==
    IF Len(triggers) > 3 THEN RecoStrong
    ELSE IF Len(triggers) > 0 THEN RecoSoft
    ELSE IF options = << >> THEN RecoAppropriate
    ELSE RecoOptional

\* the result dict of an empty message, shared by both rephrase_message
EmptyMessageResult_Error(v) ==
    [raised |-> FALSE, original |-> v, rephrased_options |-> << >>,
     analysis |-> EmptyDict, recommendation |-> "Erreur lors de la reformulation"]

EmptyMessageResult(v) ==
    [raised |-> FALSE, original |-> v, rephrased_options |-> << >>,
     analysis |-> EmptyDict, recommendation |-> "Message vide"]

\* the options list assembled by rephrase_message of message_rephraser_hf.py
AssembleOptions_TemplateFirst(original_message, calmed_text, formal_version) ==
    (IF formal_version # calmed_text
     THEN <<[text |-> formal_version, method |-> "formal_template",
             confidence |-> "0.7",
             description |-> "Version plus formelle et neutre"]>>
     ELSE << >>)
    \o
    (IF calmed_text # original_message
     THEN <<[text |-> calmed_text, method |-> "rules_based",
             confidence |-> "0.8",
             description |-> "Reformulation basée sur les règles d'apaisement"]>>
     ELSE << >>)

AssembleOptions_Elif(original_message, calmed_text, formal_version) ==
    IF calmed_text # original_message
    THEN <<[text |-> calmed_text, method |-> "rules_based",
            confidence |-> "0.8",
            description |-> "Reformulation basée sur les règles d'apaisement"]>>
    ELSE IF formal_version # calmed_text
    THEN <<[text |-> formal_version, method |-> "formal_template",
            confidence |-> "0.7",
            description |-> "Version plus formelle et neutre"]>>
    ELSE << >>

AssembleOptions(original_message, calmed_text, formal_version) ==
    (IF calmed_text # original_message
     THEN <<[text |-> calmed_text, method |-> "rules_based",
             confidence |-> "0.8",
             description |-> "Reformulation basée sur les règles d'apaisement"]>>
     ELSE << >>)
    \o
    (IF formal_version # calmed_text
     THEN <<[text |-> formal_version, method |-> "formal_template",
             confidence |-> "0.7",
             description |-> "Version plus formelle et neutre"]>>
     ELSE << >>)

\* rephrase_message(original_message) of message_rephraser_hf.py
rephrase_message(v) ==
    IF ~Truthy(v) THEN EmptyMessageResult(v)
    ELSE IF ~IsStr(v)
    \* original_message.strip() raises AttributeError, caught by the except
    THEN [raised |-> FALSE, original |-> v, rephrased_options |-> << >>,
          analysis |-> [error |-> "AttributeError"],
          recommendation |-> "Erreur lors de la reformulation"]
    ELSE IF strip(v.str) = "" THEN EmptyMessageResult(v)
    ELSE
      LET original_message == v.str
          Result(trigs, opts) ==
              [raised |-> FALSE, original |-> v, rephrased_options |-> opts,
               analysis |-> [triggers_detected |-> trigs,
                             sentiment |-> IF Len(trigs) > 2 THEN "hostile"
                                           ELSE "neutre",
                             emotion_detected |-> trigs],
               recommendation |-> generate_recommendation(trigs, opts)]
      IN  Result(detect_triggers(original_message),
                 AssembleOptions(original_message,
                                 apply_calming_rules(original_message),
                                 create_formal_version(original_message)))

\* mirror_mode(message)
suggested_changes == <<"Utiliser un ton plus neutre",
                       "Éviter les accusations directes",
                       "Centrer sur l'intérêt de l'enfant",
                       "Ajouter une formule de politesse">>

ImpactScore(message) ==
    Len(detect_triggers(message)) * 2
      + (IF Contains(message, "!") \/ Contains(message, "?") THEN 1 ELSE 0)
      + (IF isupper(message) THEN 3 ELSE 0)

ImpactLevel_Strict(impact_score) ==
    IF impact_score > 6 THEN "Élevé"
    ELSE IF impact_score >= 3 THEN "Modéré"
    ELSE "Faible"

ImpactLevel(impact_score) ==
    IF impact_score >= 6 THEN "Élevé"
    ELSE IF impact_score >= 3 THEN "Modéré"
    ELSE "Faible"

\* a recommendation whose moderate band starts at 4
MirrorRecommendation_Shifted(impact_score) ==
    IF impact_score >= 6
    THEN "Ce message risque de créer des tensions. Une reformulation est fortement recommandée."
    ELSE IF impact_score >= 4
    THEN "Ce message pourrait être mal perçu. Considérez une reformulation."
    ELSE "Ce message semble approprié pour la communication."

MirrorRecommendation(impact_score) ==
    IF impact_score >= 6
    THEN "Ce message risque de créer des tensions. Une reformulation est fortement recommandée."
    ELSE IF impact_score >= 3
    THEN "Ce message pourrait être mal perçu. Considérez une reformulation."
    ELSE "Ce message semble approprié pour la communication."

mirror_mode(v) ==
    \* detect_triggers calls text.lower(): AttributeError unless a str
    IF ~IsStr(v) THEN Raised("AttributeError")
    ELSE LET Result(impact_score) ==
                 [raised |-> FALSE,
                  impact_score |-> impact_score,
                  impact_level |-> ImpactLevel(impact_score),
                  triggers_detected |-> detect_triggers(v.str),
                  recommendation |-> MirrorRecommendation(impact_score),
                  suggested_changes |-> IF impact_score > 2 THEN suggested_changes
                                        ELSE << >>]
         IN  Result(ImpactScore(v.str))

\* self.child_focused_phrases
child_focused_phrases == <<
    "dans l'intérêt de l'enfant",
    "pour le bien-être de notre enfant",
    "selon ce qui a été convenu",
    "pour éviter un malentendu",
    "afin de maintenir la stabilité pour l'enfant">>

\* generate_responses(message) and generate_assisted_responses(received_message)
template_responses == <<
    "J'ai bien reçu ton message. Pour le bien de notre enfant, pourrions-nous discuter de cela calmement ?",
    "Merci pour ton message. Dans l'intérêt de notre enfant, je propose que nous trouvions une solution ensemble.",
    "J'ai pris note de ton message. Pour éviter tout malentendu, pourrions-nous clarifier ce point ?",
    "Merci de m'avoir informé. Dans l'intérêt de notre enfant, je vais réfléchir à ta demande.",
    "J'ai bien compris ton message. Pour le bien-être de notre enfant, restons constructifs.">>

\* generate_responses when self.template_responses holds templates
generate_responses_from(templates, message) ==
    LET low == lower(message)
        any(words) == \E word \in words : Contains(low, word)
    IN  IF any({"urgent", "important", "problème"})
        THEN <<"J'ai bien reçu ton message urgent. Pour le bien de notre enfant, je vais traiter cela rapidement.",
               "Merci de m'avoir alerté. Dans l'intérêt de notre enfant, nous devons résoudre cela ensemble.",
               "J'ai pris note de l'urgence. Je reviens vers toi rapidement pour le bien-être de notre enfant.">>
        ELSE IF any({"merci", "accord", "ok", "bien"})
        THEN <<"Merci pour ton message. C'est parfait pour notre enfant.",
               "J'ai bien reçu. Merci pour ta collaboration dans l'intérêt de notre enfant.",
               "Parfait, cela convient bien pour le bien-être de notre enfant.">>
        ELSE SubSeq(templates, 1, Min({3, Len(templates)}))

generate_responses(message) ==
    generate_responses_from(template_responses, message)

AssistedResponse(t) ==
    [text |-> t, type |-> "assisted_response", focus |-> "child_centered"]

\* generate_assisted_responses when self.template_responses holds templates
generate_assisted_responses_from(templates, v) ==
    IF ~IsStr(v) THEN Raised("AttributeError")
    ELSE LET Wrap(responses) ==
                 [raised |-> FALSE,
                  responses |-> [k \in 1..Len(responses) |->
                                    AssistedResponse(responses[k])]]
         IN  Wrap(generate_responses_from(templates, v.str))

generate_assisted_responses(v) ==
    generate_assisted_responses_from(template_responses, v)

(***************************************************************************)
(* sentiment_analyzer.py                                                   *)
(***************************************************************************)
\* self.trigger_words, in insertion order: <<category, phrases>>
trigger_words == <<
    <<"reproches", <<"comme d'habitude", "encore", "jamais", "toujours",
                     "à cause de toi", "t'as qu'à">> >>,
    <<"sarcasme", <<"bien sûr", "évidemment", "c'est ça", "parfait", "génial">> >>,
    <<"accusations", <<"tu fais exprès", "tu mens", "tu ne comprends rien",
                       "c'est ta faute">> >>,
    <<"manipulation", <<"si tu m'aimais", "tu ne penses qu'à toi",
                        "les enfants vont souffrir">> >> >>

\* the flattening of a sequence of sequences
RECURSIVE Flatten(_, _)
Flatten(seqs, k) ==
    IF k > Len(seqs) THEN << >> ELSE seqs[k] \o Flatten(seqs, k + 1)

\* _detect_patterns(text)
generalization_words == {"tous", "toutes", "personne", "rien", "jamais", "toujours"}
comparison_phrases == {"contrairement à", "au moins lui", "elle au moins"}

\* re.search(r'\?.*\?', text): two '?' with no newline between them
NestedQuestion(text) ==
    \E i \in 1..Len(text) :
        /\ At(text, i) = "?"
        /\ \E j \in (i + 1)..LineEnd(text, i) : At(text, j) = "?"

detect_patterns(text) ==
    LET text_lower == lower(text)
    IN  (IF NestedQuestion(text) \/ count(text_lower, "?") > 2
         THEN <<"questions_rhetoriques">> ELSE << >>)
        \o (IF count(text, "!") > 2
            THEN <<"exclamations_excessives">> ELSE << >>)
        \o (IF \E word \in generalization_words : Contains(text_lower, word)
            THEN <<"generalisation">> ELSE << >>)
        \o (IF \E phrase \in comparison_phrases : Contains(text_lower, phrase)
            THEN <<"comparaison_negative">> ELSE << >>)

\* _generate_recommendation(analysis_result)
analyzer_recommendation(sentiment, emotion_detected) ==
    IF sentiment = "hostile" \/ emotion_detected # << >>
    THEN "Ce message contient des signaux de tension. Voulez-vous l'adoucir ?"
    ELSE IF sentiment = "neutre" THEN "Message neutre, prêt à être envoyé."
    ELSE "Message positif, bon pour la communication."

\* The external sentiment model, self.sentiment_pipeline, behaves in one of
\* these ways during a call:
\*   [kind |-> "absent"]  the model failed to load (sentiment_pipeline None)
\*   [kind |-> "raise"]   the pipeline call raises
\*   [kind |-> "empty"]   the pipeline returns an empty list
\*   [kind |-> "label", label, score]  the first result of the pipeline
PipelineSentiment(pipe) ==
    IF pipe.kind # "label" THEN [sentiment |-> "neutre", score |-> "0.5"]
    ELSE LET label == lower(pipe.label)
         IN  [sentiment |->
                IF Contains(label, "negative") \/ Contains(label, "1")
                   \/ Contains(label, "2") THEN "hostile"
                ELSE IF Contains(label, "positive") \/ Contains(label, "4")
                        \/ Contains(label, "5") THEN "positif"
                ELSE "neutre",
              score |-> pipe.score]

\* a scan that appends the category once for every phrase found
CategoriesFound_PerPhrase(found) ==
    Flatten([k \in 1..Len(trigger_words) |->
                [w \in 1..Len(found[k]) |-> trigger_words[k][1]]], 1)

\* the categories appended to emotion_detected by the scan of the lexicon:
\* found[k] holds the phrases of category k that the text contains
CategoriesFound(found) ==
    SelectIdx([k \in 1..Len(trigger_words) |-> trigger_words[k][1]],
              {k \in 1..Len(trigger_words) : found[k] # << >>}, 1)

\* a detection that also records the verdict of the sentiment model
EmotionsDetected_FromModel(model, found, txt) ==
    (IF model.sentiment = "hostile" THEN <<"hostile">> ELSE << >>)
      \o CategoriesFound(found) \o detect_patterns(txt)

\* emotion_detected of a text: the categories of the scan, then the patterns;
\* the result of the sentiment model (model) is not read
EmotionsDetected(model, found, txt) ==
    CategoriesFound(found) \o detect_patterns(txt)

\* analyze_sentiment(text)
analyze_sentiment(v, pipe) ==
    IF ~Truthy(v)
    THEN [raised |-> FALSE, sentiment |-> "neutre", score |-> "0.5",
          emotion_detected |-> << >>, trigger_words_found |-> << >>,
          recommendation |-> "Message vide"]
    \* text.strip() raises AttributeError on a value that is not a str
    ELSE IF ~IsStr(v) THEN Raised("AttributeError")
    ELSE IF strip(v.str) = ""
    THEN [raised |-> FALSE, sentiment |-> "neutre", score |-> "0.5",
          emotion_detected |-> << >>, trigger_words_found |-> << >>,
          recommendation |-> "Message vide"]
    ELSE
      LET txt == v.str
          FoundWords(text_lower) ==
              [k \in 1..Len(trigger_words) |->
                  SelectIdx(trigger_words[k][2],
                            {w \in 1..Len(trigger_words[k][2]) :
                                Contains(text_lower, trigger_words[k][2][w])}, 1)]
          Result(model, found, emotions) ==
              [raised |-> FALSE,
               sentiment |-> model.sentiment,
               score |-> model.score,
               emotion_detected |-> emotions,
               trigger_words_found |-> Flatten(found, 1),
               recommendation |->
                   analyzer_recommendation(model.sentiment, emotions)]
          Scan(model, found) ==
              Result(model, found, EmotionsDetected(model, found, txt))
      IN  Scan(PipelineSentiment(pipe), FoundWords(lower(txt)))

(***************************************************************************)
(* message_rephraser.py: the OpenAI variant.                               *)
(***************************************************************************)
\* self.trigger_replacements, in insertion order (dict order)
trigger_replacements_llm == <<
    <<"comme d'habitude", "comme convenu précédemment">>,
    <<"encore", "à nouveau">>,
    <<"jamais", "rarement">>,
    <<"toujours", "souvent">>,
    <<"à cause de toi", "en raison de cette situation">>,
    <<"t'as qu'à", "il serait possible de">>,
    <<"tu fais exprès", "il semble y avoir un malentendu">>,
    <<"c'est ta faute", "cette situation nécessite notre attention">>,
    <<"tu ne comprends rien", "il y a peut-être besoin de clarification">> >>

\* _apply_typed_rules(message)
apply_typed_rules(message) ==
    LET p1 == SubstituteLexicon(message, trigger_replacements_llm, 1)
        p2 == SubRuns(p1, {"!"}, 2, "!")
        p3 == SubLiteral(p2, "!", ".")
        p4 == SubRuns(p3, {"?"}, 2, "?")
    IN  strip(SubRuns(p4, Whitespace, 1, " "))

\* content.split('\n')
RECURSIVE SplitLines(_, _)
SplitLines(s, from) ==
    LET e == LineEnd(s, from)
    IN  IF from > Len(s) THEN <<"">>
        ELSE IF e = Len(s) THEN <<SubSeq(s, from, Len(s))>>
        ELSE <<Slice(s, from, e)>> \o SplitLines(s, e + 2)

\* the numbered lines of the completion: the stripped line starts with one
\* of the prefixes, and line[2:].strip() is not empty
RECURSIVE NumberedLines(_, _, _)
NumberedLines(lines, prefixes, k) ==
    IF k > Len(lines) THEN << >>
    ELSE LET line == strip(lines[k])
             body == strip(Slice(line, 3, Len(line)))
         IN  (IF (\E p \in prefixes : startswith(line, p)) /\ body # ""
              THEN <<body>> ELSE << >>)
             \o NumberedLines(lines, prefixes, k + 1)

FirstN(seq, n) == SubSeq(seq, 1, IF Len(seq) < n THEN Len(seq) ELSE n)

\* The external generation call, self.client.chat.completions.create, behaves
\* in one of these ways during a call:
\*   [kind |-> "raise"]    the API call raises (network, authentication)
\*   [kind |-> "timeout"]  the API call exceeds its timeout (APITimeoutError)
\*   [kind |-> "null"]     the completion has content None
\*   [kind |-> "content", content]  the text of the completion
\* _generate_with_llm(message, sentiment_analysis, context)
\* The try/except of the function turns every failure into the empty list.
generate_with_llm_Uncaught(outcome) ==
    IF outcome.kind # "content" THEN Raised("APIError")
    ELSE [raised |-> FALSE,
          versions |-> FirstN(NumberedLines(SplitLines(outcome.content, 1),
                                            {"1.", "2."}, 1), 2)]

generate_with_llm(outcome) ==
    IF outcome.kind # "content"
    THEN [raised |-> FALSE, versions |-> << >>]   \* except Exception: return []
    ELSE [raised |-> FALSE,
          versions |-> FirstN(NumberedLines(SplitLines(outcome.content, 1),
                                            {"1.", "2."}, 1), 2)]

\* _validate_reformulation(reformulated_text, original_analysis)
validate_reformulation_Untrimmed(reformulated_text, original_analysis) ==
    IF reformulated_text = "" \/ Len(reformulated_text) < 5 THEN FALSE
    ELSE IF \E k \in 1..Len(trigger_replacements_llm) :
               Contains(lower(reformulated_text), trigger_replacements_llm[k][1])
    THEN FALSE
    ELSE IF Len(reformulated_text) > 500 THEN FALSE
    ELSE IF Contains(reformulated_text, "!!") \/ Contains(reformulated_text, "???")
    THEN FALSE
    ELSE TRUE

validate_reformulation_NoMax(reformulated_text, original_analysis) ==
    IF reformulated_text = "" \/ Len(strip(reformulated_text)) < 5 THEN FALSE
    ELSE IF \E k \in 1..Len(trigger_replacements_llm) :
               Contains(lower(reformulated_text), trigger_replacements_llm[k][1])
    THEN FALSE
    ELSE IF Contains(reformulated_text, "!!") \/ Contains(reformulated_text, "???")
    THEN FALSE
    ELSE TRUE

validate_reformulation(reformulated_text, original_analysis) ==
    IF reformulated_text = "" \/ Len(strip(reformulated_text)) < 5 THEN FALSE
    ELSE IF \E k \in 1..Len(trigger_replacements_llm) :
               Contains(lower(reformulated_text), trigger_replacements_llm[k][1])
    THEN FALSE
    ELSE IF Len(reformulated_text) > 500 THEN FALSE
    ELSE IF Contains(reformulated_text, "!!") \/ Contains(reformulated_text, "???")
    THEN FALSE
    ELSE TRUE

\* _combine_and_validate(rule_based, llm_versions, sentiment_analysis)
combine_and_validate_Uncapped(rule_based, llm_versions, sentiment_analysis) ==
    LET Validated(options) ==
            SelectIdx(options,
                      {k \in 1..Len(options) :
                          validate_reformulation(options[k].text,
                                                 sentiment_analysis)}, 1)
    IN  Validated(
            (IF rule_based # "" /\ strip(rule_based) # ""
             THEN <<[text |-> rule_based, method |-> "rules_based",
                     confidence |-> "0.8",
                     description |-> "Reformulation basée sur les règles d'apaisement"]>>
             ELSE << >>)
            \o SelectIdx([i \in 1..Len(llm_versions) |->
                            [text |-> llm_versions[i], method |-> "llm_generated",
                             confidence |-> "0.9",
                             description |-> "Reformulation IA - Option " \o ToString(i)]],
                         {i \in 1..Len(llm_versions) :
                             llm_versions[i] # "" /\ strip(llm_versions[i]) # ""}, 1))

combine_and_validate(rule_based, llm_versions, sentiment_analysis) ==
    LET Validated(options) ==
            FirstN(SelectIdx(options,
                             {k \in 1..Len(options) :
                                 validate_reformulation(options[k].text,
                                                        sentiment_analysis)}, 1), 3)
    IN  Validated(
            (IF rule_based # "" /\ strip(rule_based) # ""
             THEN <<[text |-> rule_based, method |-> "rules_based",
                     confidence |-> "0.8",
                     description |-> "Reformulation basée sur les règles d'apaisement"]>>
             ELSE << >>)
            \o SelectIdx([i \in 1..Len(llm_versions) |->
                            [text |-> llm_versions[i], method |-> "llm_generated",
                             confidence |-> "0.9",
                             description |-> "Reformulation IA - Option " \o ToString(i)]],
                         {i \in 1..Len(llm_versions) :
                             llm_versions[i] # "" /\ strip(llm_versions[i]) # ""}, 1))

\* _generate_usage_recommendation(sentiment_analysis, options)
RecoNone == "Aucune reformulation disponible. Le message original peut être envoyé tel quel."
RecoStrongLlm == "Votre message contient des éléments de tension. Nous recommandons fortement d'utiliser une des reformulations proposées."
RecoOptionalLlm == "Votre message est déjà assez neutre. Les reformulations sont optionnelles."

generate_usage_recommendation(sentiment_analysis, options) ==
    IF options = << >> THEN RecoNone
    ELSE IF sentiment_analysis.sentiment = "hostile" THEN RecoStrongLlm
    ELSE IF sentiment_analysis.emotion_detected # << >> THEN RecoSoft
    ELSE RecoOptionalLlm

\* rephrase_message(original_message, context) of message_rephraser.py
rephrase_message_llm(v, pipe, llm) ==
    IF ~Truthy(v) THEN EmptyMessageResult(v)
    \* original_message.strip() raises AttributeError, and nothing catches it
    ELSE IF ~IsStr(v) THEN Raised("AttributeError")
    ELSE IF strip(v.str) = "" THEN EmptyMessageResult(v)
    ELSE
      LET Result(analysis, final_options) ==
              [raised |-> FALSE, original |-> v,
               rephrased_options |-> final_options,
               analysis |-> analysis,
               recommendation |->
                   generate_usage_recommendation(analysis, final_options)]
          Combine(analysis, rule_based_version, generated) ==
              IF generated.raised THEN generated   \* an exception propagates
              ELSE Result(analysis,
                          combine_and_validate(rule_based_version,
                                               generated.versions, analysis))
      IN  Combine(analyze_sentiment(v, pipe), apply_typed_rules(v.str),
                  generate_with_llm(llm))

\* generate_assisted_responses(received_message, context) of message_rephraser.py
generate_assisted_responses_llm(v, llm) ==
    LET texts == IF llm.kind # "content" THEN << >>
                 ELSE FirstN(NumberedLines(SplitLines(llm.content, 1),
                                           {"1.", "2.", "3."}, 1), 3)
    IN  [raised |-> FALSE,
         responses |-> [k \in 1..Len(texts) |-> AssistedResponse(texts[k])]]

(***************************************************************************)
(* The requests.                                                           *)
(***************************************************************************)
\* the pieces a request message is made of
Pieces == {"Bonjour", "BONJOUR", "ENCORE", " jamais toujours", "à cause ",
           " de toi", "!", "?", " ", "\n", "Tu es ", " merci"}

RECURSIVE Concats(_)
Concats(k) ==
    IF k = 0 THEN {""}
    ELSE LET shorter == Concats(k - 1)
         IN  shorter \cup {a \o b : a \in shorter, b \in Pieces}

\* the example of the specification, and candidates around the length limits
ExampleMessage == "Tu es encore en retard comme d'habitude, tu ne penses qu'à toi !!"
LongMessages == {Rep("a", 500), Rep("a", 501)}

\* candidates of exactly five characters, with and without padding, a
\* message that ends with an ellipsis, two questions on two lines, and a
\* message with four triggers
EdgeMessages == {"Merci", "Oui  ", "On verra...", "Quoi ?\nVraiment ?",
                 "JAMAIS TOUJOURS !"}

\* the original analyses handed to _validate_reformulation
Analyses == {EmptyDict,
             [sentiment |-> "hostile", emotion_detected |-> <<"reproches">>]}

\* the trigger lists and option lists handed to the recommendation functions
AllSignals == <<"encore", "jamais", "toujours", "ponctuation excessive",
                "majuscules excessives">>
SignalLists == {SubSeq(AllSignals, 1, n) : n \in 0..Len(AllSignals)}
OptionLists ==
    {<< >>,
     <<[text |-> FormalGeneric, method |-> "formal_template",
        confidence |-> "0.7", description |-> "Version plus formelle et neutre"]>>}
SentimentAnalyses ==
    {[sentiment |-> sn, emotion_detected |-> e] :
        sn \in {"hostile", "neutre", "positif"},
        e \in {l \in SignalLists : Len(l) \in {0, 1, Len(AllSignals) - 1}}}

\* the lists of generated versions handed to _combine_and_validate
Candidates == <<"Merci de me confirmer l'heure.", "D'accord !!",
                "Entendu, à demain.", "Je te remercie.">>
CandidateLists == {SubSeq(Candidates, 1, n) : n \in 0..Len(Candidates)}

\* messages holding one keyword of each category of a set of categories of
\* create_formal_version, the later category first in the text
Keywords == <<"Chercher ", "en Retard ", "souci ", "Malade ">>

RECURSIVE KeywordMessage(_, _)
KeywordMessage(cats, k) ==
    IF k = 0 THEN ""
    ELSE (IF k \in cats THEN Keywords[k] ELSE "") \o KeywordMessage(cats, k - 1)

KeywordMessages ==
    {KeywordMessage(cats, Len(Keywords)) : cats \in SUBSET (1..Len(Keywords))}

Messages ==
    {Str(m) : m \in Concats(MaxPieces) \cup LongMessages \cup EdgeMessages
                      \cup KeywordMessages \cup {ExampleMessage}}
      \cup {NoneValue, NumValue}

\* what the sentiment model does during a call
Pipelines == {[kind |-> "absent"], [kind |-> "raise"],
              [kind |-> "label", label |-> "1 star", score |-> "0.91"],
              [kind |-> "label", label |-> "5 stars", score |-> "0.87"]}

\* what the generation service does during a call
LlmTwoOptions == "Voici deux propositions :\n1. Peux-tu me confirmer l'heure ?? Merci.\n2. Encore une fois, merci de confirmer."
LlmNoOption == "Je ne peux pas reformuler ce message."
LlmTwoValid == "1. Merci de me confirmer l'heure.\n2. Entendu, à demain."
LlmFourOptions == "1. Merci de me confirmer l'heure.\n2. D'accord !!\n3. Entendu, à demain.\n1. Je te remercie."

LlmFailures == {[kind |-> "raise"], [kind |-> "timeout"], [kind |-> "null"]}
LlmOutcomes ==
    LlmFailures \cup {[kind |-> "content", content |-> c] :
                          c \in {LlmTwoOptions, LlmNoOption, LlmTwoValid,
                                LlmFourOptions}}

\* the pairs <<sentiment model, generation service>> of one call of the
\* OpenAI variant: every outcome of the service with the model absent, and
\* every outcome of the model with a completion that holds two options
Scenarios ==
    {<<[kind |-> "absent"], l>> : l \in LlmOutcomes}
      \cup {<<p, [kind |-> "content", content |-> LlmTwoOptions]>> : p \in Pipelines}

NoPipeline == [kind |-> "unused"]
NoLlm == [kind |-> "unused"]

(***************************************************************************)
(* routes/ai_routes.py: the shared instances and the callers.              *)
(***************************************************************************)
\* the number of callers that call the shared instances at the same time
NumCallers == 2
Callers == 1..NumCallers

\* the tables of sentiment_analyzer and message_rephraser after __init__
InitialTables ==
    [trigger_words |-> trigger_words,
     trigger_replacements |-> trigger_replacements,
     child_focused_phrases |-> child_focused_phrases,
     template_responses |-> template_responses]

NoCall == [pc |-> "idle"]
NoResponse == [route |-> "none"]

(***************************************************************************)
(* State: one request to the core.                                         *)
(*   message  the value received as the message                            *)
(*   op       the function called on it ("idle": not called yet)           *)
(*   pipe     what the sentiment model did during the call                 *)
(*   llm      what the generation service did during the call              *)
(*   ret      the value the call returned                                  *)
(* State of the service (routes/ai_routes.py):                             *)
(*   tables   the tables of the shared module-level instances              *)
(*   calls    the calls in flight on the shared instances, per caller      *)
(*   rows     the rows of the table of Message, in insertion order         *)
(*   resp     the response to the last request handled by a route          *)
(***************************************************************************)
VARIABLES message, op, pipe, llm, ret, tables, calls, rows, resp

core == <<message, op, pipe, llm, ret>>
shared == <<tables, calls>>
history == <<rows, resp>>
vars == <<message, op, pipe, llm, ret, tables, calls, rows, resp>>

\* the service at rest: no call in flight, no row stored, no request handled
IdleShared ==
    /\ tables = InitialTables
    /\ calls = [c \in Callers |-> NoCall]

IdleHistory ==
    /\ rows = << >>
    /\ resp = NoResponse

IdleCore ==
    /\ message = NoneValue
    /\ op = "idle"
    /\ pipe = NoPipeline
    /\ llm = NoLlm
    /\ ret = [raised |-> FALSE]

Init ==
    /\ message \in Messages
    /\ op = "idle"
    /\ pipe = NoPipeline
    /\ llm = NoLlm
    /\ ret = [raised |-> FALSE]
    /\ IdleShared
    /\ IdleHistory

AnalyzeSentiment ==
    /\ op = "idle"
    /\ \E p \in Pipelines :
          /\ pipe' = p
          /\ ret' = analyze_sentiment(message, p)
    /\ op' = "analyze_sentiment"
    /\ UNCHANGED <<message, llm, shared, history>>

RephraseMessage ==
    /\ op = "idle"
    /\ ret' = rephrase_message(message)
    /\ op' = "rephrase_message"
    /\ UNCHANGED <<message, pipe, llm, shared, history>>

RephraseMessageLlm ==
    /\ op = "idle"
    /\ \E sc \in Scenarios :
          /\ pipe' = sc[1]
          /\ llm' = sc[2]
          /\ ret' = rephrase_message_llm(message, sc[1], sc[2])
    /\ op' = "rephrase_message_llm"
    /\ UNCHANGED <<message, shared, history>>

MirrorMode ==
    /\ op = "idle"
    /\ ret' = mirror_mode(message)
    /\ op' = "mirror_mode"
    /\ UNCHANGED <<message, pipe, llm, shared, history>>

GenerateAssistedResponses ==
    /\ op = "idle"
    /\ ret' = generate_assisted_responses(message)
    /\ op' = "generate_assisted_responses"
    /\ UNCHANGED <<message, pipe, llm, shared, history>>

GenerateAssistedResponsesLlm ==
    /\ op = "idle"
    /\ \E l \in LlmOutcomes :
          /\ llm' = l
          /\ ret' = generate_assisted_responses_llm(message, l)
    /\ op' = "generate_assisted_responses_llm"
    /\ UNCHANGED <<message, pipe, shared, history>>

\* _validate_reformulation called on the message as the candidate
ValidateReformulation ==
    /\ op = "idle"
    /\ IsStr(message)
    /\ \E a \in Analyses :
          ret' = [raised |-> FALSE, original_analysis |-> a,
                  valid |-> validate_reformulation(message.str, a)]
    /\ op' = "validate_reformulation"
    /\ UNCHANGED <<message, pipe, llm, shared, history>>

\* generate_recommendation called alone on a trigger list and an option list
GenerateRecommendation ==
    /\ op = "idle"
    /\ \E triggers \in SignalLists, options \in OptionLists :
          ret' = [raised |-> FALSE, triggers |-> triggers, options |-> options,
                  recommendation |-> generate_recommendation(triggers, options)]
    /\ op' = "generate_recommendation"
    /\ UNCHANGED <<message, pipe, llm, shared, history>>

\* _generate_usage_recommendation called alone on an analysis and an option list
GenerateUsageRecommendation ==
    /\ op = "idle"
    /\ \E sentiment_analysis \in SentimentAnalyses, options \in OptionLists :
          ret' = [raised |-> FALSE, analysis |-> sentiment_analysis,
                  options |-> options,
                  recommendation |->
                      generate_usage_recommendation(sentiment_analysis, options)]
    /\ op' = "generate_usage_recommendation"
    /\ UNCHANGED <<message, pipe, llm, shared, history>>

\* _combine_and_validate called alone, the message as the rule-based version
CombineAndValidate ==
    /\ op = "idle"
    /\ IsStr(message)
    /\ \E llm_versions \in CandidateLists :
          ret' = [raised |-> FALSE, llm_versions |-> llm_versions,
                  rephrased_options |->
                      combine_and_validate(message.str, llm_versions, EmptyDict)]
    /\ op' = "combine_and_validate"
    /\ UNCHANGED <<message, pipe, llm, shared, history>>

\* create_formal_version called alone on a str
CreateFormalVersion ==
    /\ op = "idle"
    /\ IsStr(message)
    /\ ret' = [raised |-> FALSE, text |-> create_formal_version(message.str)]
    /\ op' = "create_formal_version"
    /\ UNCHANGED <<message, pipe, llm, shared, history>>

\* the rule rewriter called alone on a str
ApplyCalmingRules ==
    /\ op = "idle"
    /\ IsStr(message)
    /\ ret' = [raised |-> FALSE, text |-> apply_calming_rules(message.str)]
    /\ op' = "apply_calming_rules"
    /\ UNCHANGED <<message, pipe, llm, shared, history>>

ApplyTypedRules ==
    /\ op = "idle"
    /\ IsStr(message)
    /\ ret' = [raised |-> FALSE, text |-> apply_typed_rules(message.str)]
    /\ op' = "apply_typed_rules"
    /\ UNCHANGED <<message, pipe, llm, shared, history>>

\* detect_triggers called alone: text.lower() raises AttributeError on a value
\* that is not a str
DetectTriggers ==
    /\ op = "idle"
    /\ ret' = IF IsStr(message)
              THEN [raised |-> FALSE, triggers |-> detect_triggers(message.str)]
              ELSE Raised("AttributeError")
    /\ op' = "detect_triggers"
    /\ UNCHANGED <<message, pipe, llm, shared, history>>

\* _detect_patterns called alone on a str
DetectPatterns ==
    /\ op = "idle"
    /\ IsStr(message)
    /\ ret' = [raised |-> FALSE, patterns |-> detect_patterns(message.str)]
    /\ op' = "detect_patterns"
    /\ UNCHANGED <<message, pipe, llm, shared, history>>

Next ==
    \/ DetectTriggers
    \/ DetectPatterns
    \/ CreateFormalVersion
    \/ CombineAndValidate
    \/ GenerateRecommendation
    \/ GenerateUsageRecommendation
    \/ ApplyCalmingRules
    \/ ApplyTypedRules
    \/ AnalyzeSentiment
    \/ RephraseMessage
    \/ RephraseMessageLlm
    \/ MirrorMode
    \/ GenerateAssistedResponses
    \/ GenerateAssistedResponsesLlm
    \/ ValidateReformulation

Spec == Init /\ [][Next]_vars

(***************************************************************************)
(* Concurrent calls on the shared instances.  A caller enters a method of  *)
(* sentiment_analyzer or message_rephraser with its argument, and returns  *)
(* later; between the two, the other callers enter and return.             *)
(***************************************************************************)
SharedMethods == {"analyze_sentiment", "rephrase_message", "mirror_mode",
                  "generate_assisted_responses"}

\* the arguments of the concurrent calls
ConcurrentMessages == {Str("On verra..."), Str(ExampleMessage)}

\* a call of generate_assisted_responses that takes the first template out of
\* the shared list
TablesAfter_PopTemplate(method, tbl) ==
    IF method = "generate_assisted_responses" /\ tbl.template_responses # << >>
    THEN [tbl EXCEPT !.template_responses = Tail(@)]
    ELSE tbl

\* the tables of the shared instances as a call of method leaves them:
\* no method assigns to an attribute of self or changes a table in place
TablesAfter(method, tbl) == tbl

\* what a call of method returns when it reads the tables tbl
CallResult(method, v, tbl) ==
    CASE method = "analyze_sentiment" -> analyze_sentiment(v, [kind |-> "absent"])
      [] method = "rephrase_message" -> rephrase_message(v)
      [] method = "mirror_mode" -> mirror_mode(v)
      [] method = "generate_assisted_responses" ->
            generate_assisted_responses_from(tbl.template_responses, v)

Enter(c) ==
    /\ calls[c].pc = "idle"
    /\ \E method \in SharedMethods, v \in ConcurrentMessages :
          calls' = [calls EXCEPT ![c] = [pc |-> "running", method |-> method,
                                         message |-> v]]
    /\ UNCHANGED <<tables, core, history>>

Return(c) ==
    /\ calls[c].pc = "running"
    /\ calls' = [calls EXCEPT ![c] =
                    [pc |-> "done", method |-> calls[c].method,
                     message |-> calls[c].message,
                     ret |-> CallResult(calls[c].method, calls[c].message, tables)]]
    /\ tables' = TablesAfter(calls[c].method, tables)
    /\ UNCHANGED <<core, history>>

InitConc == IdleCore /\ IdleShared /\ IdleHistory

NextConc == \E c \in Callers : Enter(c) \/ Return(c)

SpecConc == InitConc /\ [][NextConc]_vars

(***************************************************************************)
(* The message history: the routes rephrase-message, get-message-history   *)
(* and delete-message-history of routes/ai_routes.py on the table of       *)
(* Message (models/message.py).  A request is handled in one transaction.  *)
(***************************************************************************)
\* the rows the table holds at most
MaxRows == 2

\* the identities of the tokens: get_jwt_identity()
Users == {1, 2}

\* the bodies of a POST on rephrase-message: request.get_json()
HistoryMessages == {Str("jamais !"), Str(""), NoneValue}
SaveFlags == {"absent", "false", "true"}
Bodies ==
    {[message_given |-> FALSE]}
      \cup {[message_given |-> TRUE, message |-> m, save_to_history |-> f] :
                m \in HistoryMessages, f \in SaveFlags}

\* data.get('save_to_history', False)
SaveRequested(data) == data.save_to_history = "true"

\* a row built with the default of the column consent_to_store
NewMessage_DefaultConsent(user_id, msg, result) ==
    [sender_id |-> user_id,
     original_content |-> msg,
     rephrased_content |->
         IF result.rephrased_options # << >>
         THEN Str(result.rephrased_options[1].text) ELSE NoneValue,
     consent_to_store |-> FALSE]

\* Message(sender_id=user_id, original_content=message, ...): the row that
\* rephrase-message adds (id, created_at and the JSON of the analysis are
\* left out of the row)
NewMessage(user_id, msg, result) ==
    [sender_id |-> user_id,
     original_content |-> msg,
     rephrased_content |->
         IF result.rephrased_options # << >>
         THEN Str(result.rephrased_options[1].text) ELSE NoneValue,
     consent_to_store |-> TRUE]

\* Message.query.filter_by(sender_id=user_id, consent_to_store=True).all()
FilterBySenderAndConsent(table, user_id) ==
    LET Keep(row) == row.sender_id = user_id /\ row.consent_to_store
    IN  SelectSeq(table, Keep)

\* a deletion that forgets the filter on the sender
DeleteBySender_Everyone(table, user_id) == << >>

\* Message.query.filter_by(sender_id=user_id).delete(): the rows left
DeleteBySender(table, user_id) ==
    LET Keep(row) == row.sender_id # user_id
    IN  SelectSeq(table, Keep)

\* POST rephrase-message by user u.  db_ok: the commit reaches the database.
\* original_content is not nullable: the commit of a row without it raises,
\* and every exception ends in the response 500.
RephraseMessageRoute(u) ==
    /\ \E data \in Bodies :
          IF ~data.message_given
          THEN /\ resp' = [route |-> "rephrase-message", user |-> u,
                           status |-> 400, data |-> data]
               /\ rows' = rows
          ELSE IF ~SaveRequested(data)
          THEN /\ resp' = [route |-> "rephrase-message", user |-> u,
                           status |-> 200, data |-> data,
                           result |-> rephrase_message(data.message)]
               /\ rows' = rows
          ELSE \E db_ok \in BOOLEAN :
                  IF ~db_ok \/ data.message = NoneValue
                  THEN /\ resp' = [route |-> "rephrase-message", user |-> u,
                                   status |-> 500, data |-> data]
                       /\ rows' = rows
                  ELSE /\ Len(rows) < MaxRows
                       /\ resp' = [route |-> "rephrase-message", user |-> u,
                                   status |-> 200, data |-> data,
                                   result |-> rephrase_message(data.message)]
                       /\ rows' = Append(rows,
                                         NewMessage(u, data.message,
                                                    rephrase_message(data.message)))
    /\ UNCHANGED <<core, shared>>

\* GET get-message-history by user u
GetMessageHistoryRoute(u) ==
    /\ \E db_ok \in BOOLEAN :
          resp' = IF db_ok
                  THEN [route |-> "get-message-history", user |-> u,
                        status |-> 200,
                        messages |-> FilterBySenderAndConsent(rows, u)]
                  ELSE [route |-> "get-message-history", user |-> u,
                        status |-> 500]
    /\ rows' = rows
    /\ UNCHANGED <<core, shared>>

\* DELETE delete-message-history by user u
DeleteMessageHistoryRoute(u) ==
    /\ \E db_ok \in BOOLEAN :
          IF db_ok
          THEN /\ rows' = DeleteBySender(rows, u)
               /\ resp' = [route |-> "delete-message-history", user |-> u,
                           status |-> 200]
          ELSE /\ rows' = rows
               /\ resp' = [route |-> "delete-message-history", user |-> u,
                           status |-> 500]
    /\ UNCHANGED <<core, shared>>

InitHistory == IdleCore /\ IdleShared /\ IdleHistory

NextHistory ==
    \E u \in Users :
        \/ RephraseMessageRoute(u)
        \/ GetMessageHistoryRoute(u)
        \/ DeleteMessageHistoryRoute(u)

SpecHistory == InitHistory /\ [][NextHistory]_vars

(***************************************************************************)
(* Properties.                                                             *)
(***************************************************************************)
Keys(table) == {table[k][1] : k \in 1..Len(table)}
Elems(seq) == {seq[k] : k \in 1..Len(seq)}

\* no key of the lexicon occurs in s, compared case-folded
NoTrigger(s, table) == \A t \in Keys(table) : ~Contains(lower(s), t)

\* the calls that returned normally
Returned(name) == op = name /\ ~ret.raised

\* C1: the output of the rule rewriter (apply_calming_rules,
\* _apply_typed_rules) contains no key of its trigger_replacements,
\* case-insensitively.
C1_RewriteHasNoTrigger ==
    /\ Returned("apply_calming_rules") => NoTrigger(ret.text, trigger_replacements)
    /\ Returned("apply_typed_rules") => NoTrigger(ret.text, trigger_replacements_llm)

\* C2: every option returned by rephrase_message contains no lexicon trigger
\* phrase and no run of two or more '!' or of two or more '?'.
C2_OptionsAreClean ==
    /\ Returned("rephrase_message") =>
          \A o \in Elems(ret.rephrased_options) :
              /\ NoTrigger(o.text, trigger_replacements)
              /\ ~Contains(o.text, "!!") /\ ~Contains(o.text, "??")
    /\ Returned("rephrase_message_llm") =>
          \A o \in Elems(ret.rephrased_options) :
              /\ NoTrigger(o.text, trigger_replacements_llm)
              /\ ~Contains(o.text, "!!") /\ ~Contains(o.text, "??")

\* C3: rephrase_message called with the empty string or a whitespace-only
\* string returns, without raising, an empty option list, the recommendation
\* 'Message vide' and 'original' equal to the input.
IsBlankStr(v) == IsStr(v) /\ strip(v.str) = ""

C3_EmptyMessage ==
    (op \in {"rephrase_message", "rephrase_message_llm"} /\ IsBlankStr(message))
    => /\ ~ret.raised
       /\ ret.rephrased_options = << >>
       /\ ret.recommendation = "Message vide"
       /\ ret.original = message

C3_Witness ==
    /\ op = "rephrase_message_llm"
    /\ message = Str(" \n")
    /\ ret.recommendation = "Message vide"

\* C4: for every input value (null, empty, whitespace-only, any string) none
\* of analyze_sentiment, rephrase_message, mirror_mode and
\* generate_assisted_responses raises to its caller.
C4_NeverRaises ==
    (op \in {"analyze_sentiment", "rephrase_message", "rephrase_message_llm",
             "mirror_mode", "generate_assisted_responses",
             "generate_assisted_responses_llm"}
       /\ message.kind \in {"none", "str"})
    => ~ret.raised

\* C5: in the OpenAI variant, when the generation call raises, times out or
\* returns no usable candidate, rephrase_message does not raise and its
\* option list is the list obtained with zero external candidates: the
\* rule-based candidate alone if it passes validation, else nothing.
NoUsableCandidate(outcome) ==
    outcome.kind \in {"raise", "timeout", "null"}
      \/ (outcome.kind = "content" /\ outcome.content = LlmNoOption)

RuleBasedOption(m) ==
    [text |-> apply_typed_rules(m), method |-> "rules_based",
     confidence |-> "0.8",
     description |-> "Reformulation basée sur les règles d'apaisement"]

C5_CollaboratorFailure ==
    (op = "rephrase_message_llm" /\ IsStr(message) /\ ~IsBlankStr(message)
       /\ NoUsableCandidate(llm))
    => /\ ~ret.raised
       /\ ret.rephrased_options =
            IF validate_reformulation(apply_typed_rules(message.str), ret.analysis)
            THEN <<RuleBasedOption(message.str)>> ELSE << >>

C5_Witness ==
    /\ op = "rephrase_message_llm"
    /\ llm.kind = "timeout"
    /\ message = Str("BONJOUR!")
    /\ ~ret.raised
    /\ Len(ret.rephrased_options) = 1
    /\ ret.rephrased_options[1].text = "BONJOUR."

\* C6: the impact score of mirror_mode equals 2 times the number of signals
\* found by the lexicon scan, plus 1 if the punctuation-excess signal is
\* present, plus 3 if the message is all uppercase, and nothing else.
LexiconHits(m) ==
    Cardinality({t \in Keys(trigger_replacements) : Contains(lower(m), t)})

C6_ImpactWeights ==
    Returned("mirror_mode") =>
        ret.impact_score =
            2 * LexiconHits(message.str)
              + (IF "ponctuation excessive" \in Elems(ret.triggers_detected)
                 THEN 1 ELSE 0)
              + (IF isupper(message.str) THEN 3 ELSE 0)

\* C7: mirror_mode classifies the impact score as high exactly when
\* score >= 6, moderate exactly when 3 <= score <= 5, low exactly when
\* score <= 2.
C7_LevelThresholds ==
    Returned("mirror_mode") =>
        /\ (ret.impact_level = "Élevé") <=> (ret.impact_score >= 6)
        /\ (ret.impact_level = "Modéré") <=>
              (ret.impact_score >= 3 /\ ret.impact_score <= 5)
        /\ (ret.impact_level = "Faible") <=> (ret.impact_score <= 2)

C7_Witness ==
    /\ Returned("mirror_mode")
    /\ ret.impact_score = 6
    /\ ret.impact_level = "Élevé"

\* C8: for a message with no lexicon phrase and no structural signal (at
\* most two '!', fewer than two '?', not entirely uppercase, no generalizing
\* word, no negative-comparison phrase), detection returns no signal and the
\* impact score is 0 with level low.
AnalyzerPhrases ==
    UNION {Elems(trigger_words[k][2]) : k \in 1..Len(trigger_words)}

NoSignal(m) ==
    /\ NoTrigger(m, trigger_replacements)
    /\ \A t \in AnalyzerPhrases : ~Contains(lower(m), t)
    /\ count(m, "!") <= 2
    /\ count(m, "?") < 2
    /\ ~isupper(m)
    /\ \A w \in generalization_words : ~Contains(lower(m), w)
    /\ \A w \in comparison_phrases : ~Contains(lower(m), w)

C8_NoSignalNoImpact ==
    /\ (Returned("mirror_mode") /\ NoSignal(message.str)) =>
          /\ ret.triggers_detected = << >>
          /\ ret.impact_score = 0
          /\ ret.impact_level = "Faible"
    /\ (Returned("analyze_sentiment") /\ IsStr(message) /\ NoSignal(message.str)) =>
          ret.emotion_detected = << >>

\* C9: for a message written entirely in uppercase that contains no lexicon
\* phrase, detection yields the all-caps signal and mirror_mode returns an
\* impact score of at least 3 and a level of moderate or high.
C9_AllCaps ==
    (Returned("mirror_mode") /\ isupper(message.str)
       /\ NoTrigger(message.str, trigger_replacements))
    => /\ "majuscules excessives" \in Elems(ret.triggers_detected)
       /\ ret.impact_score >= 3
       /\ ret.impact_level \in {"Modéré", "Élevé"}

C9_Witness ==
    /\ Returned("mirror_mode")
    /\ message = Str("BONJOUR")
    /\ ret.triggers_detected = <<"majuscules excessives">>
    /\ ret.impact_level = "Modéré"

\* C10: _validate_reformulation returns false for every candidate shorter
\* than 5 characters and for every candidate longer than 500 characters.
C10_LengthBounds ==
    (op = "validate_reformulation"
       /\ (Len(message.str) < 5 \/ Len(message.str) > 500))
    => ret.valid = FALSE

C10_Witness ==
    /\ op = "validate_reformulation"
    /\ Len(message.str) = 501
    /\ NoTrigger(message.str, trigger_replacements_llm)
    /\ ret.valid = FALSE

\* C11 (as stated): _validate_reformulation rejects a candidate exactly when
\* it is empty or has fewer than 5 characters, or contains a lexicon trigger
\* (case-insensitive), or has more than 500 characters, or contains '!!' or
\* '???'; every other candidate is accepted, whatever the original analysis.
RejectedForContent(c) ==
    \/ ~NoTrigger(c, trigger_replacements_llm)
    \/ Len(c) > 500
    \/ Contains(c, "!!") \/ Contains(c, "???")

C11_ValidateExact ==
    op = "validate_reformulation" =>
        (ret.valid <=> ~(message.str = "" \/ Len(message.str) < 5
                           \/ RejectedForContent(message.str)))

\* C11 (amended): the minimum of 5 characters is counted after trimming the
\* whitespace at both ends of the candidate; the other three causes are as
\* stated, and the result does not depend on the original analysis.
C11_ValidateExactTrimmed ==
    op = "validate_reformulation" =>
        (ret.valid <=> ~(Len(strip(message.str)) < 5
                           \/ RejectedForContent(message.str)))

C11_Witness ==
    /\ op = "validate_reformulation"
    /\ message = Str("Oui  ")
    /\ ret.original_analysis # EmptyDict
    /\ ret.valid = FALSE

\* C12: the recommendation is the 'message already appropriate' guidance
\* whenever the option list is empty; with a non-empty option list it is the
\* strong guidance exactly when the signal count is greater than 3, the soft
\* guidance when the count is 1, 2 or 3, and the 'optional' guidance when the
\* count is 0.
RecommendationFor(signals, options, appropriate, strong, optional) ==
    IF options = << >> THEN appropriate
    ELSE IF Len(signals) > 3 THEN strong
    ELSE IF Len(signals) > 0 THEN RecoSoft
    ELSE optional

C12_RecommendationMapping ==
    /\ op = "generate_recommendation" =>
          ret.recommendation =
              RecommendationFor(ret.triggers, ret.options,
                                RecoAppropriate, RecoStrong, RecoOptional)
    /\ op = "generate_usage_recommendation" =>
          ret.recommendation =
              RecommendationFor(ret.analysis.emotion_detected, ret.options,
                                RecoNone, RecoStrongLlm, RecoOptionalLlm)

\* C13: for every input message and every number of externally supplied
\* candidates, the option list returned by rephrase_message has at most 3
\* entries.
C13_AtMostThreeOptions ==
    (op \in {"rephrase_message", "rephrase_message_llm", "combine_and_validate"}
       /\ ~ret.raised)
    => Len(ret.rephrased_options) <= 3

C13_Witness ==
    /\ op = "combine_and_validate"
    /\ Len(ret.llm_versions) = 4
    /\ Len(ret.rephrased_options) = 3
    /\ ret.rephrased_options[3].text = "Entendu, à demain."

\* C14: in the assembly step of rephrase_message, the output of the rule
\* rewriter is included as a candidate whenever it passes validation and
\* differs from the original message, and the output of the template
\* composer is included as a second candidate whenever it differs from the
\* first candidate and passes validation.
PassesValidation(c, table) ==
    /\ Len(strip(c)) >= 5
    /\ NoTrigger(c, table)
    /\ Len(c) <= 500
    /\ ~Contains(c, "!!") /\ ~Contains(c, "???")

Offers(options, method, text) ==
    \E k \in 1..Len(options) :
        options[k].method = method /\ options[k].text = text

AssemblyHf(original, calmed, formal, options) ==
    /\ (PassesValidation(calmed, trigger_replacements) /\ calmed # original)
          => Offers(options, "rules_based", calmed)
    /\ (formal # calmed /\ PassesValidation(formal, trigger_replacements))
          => /\ Offers(options, "formal_template", formal)
             /\ options[Len(options)].method = "formal_template"

AssemblyLlm(original, rule_based, options) ==
    (PassesValidation(rule_based, trigger_replacements_llm)
       /\ rule_based # original)
    => Offers(options, "rules_based", rule_based)

C14_Assembly ==
    /\ (Returned("rephrase_message") /\ IsStr(message) /\ ~IsBlankStr(message))
          => AssemblyHf(message.str, apply_calming_rules(message.str),
                        create_formal_version(message.str),
                        ret.rephrased_options)
    /\ (Returned("rephrase_message_llm") /\ IsStr(message)
           /\ ~IsBlankStr(message))
          => AssemblyLlm(message.str, apply_typed_rules(message.str),
                         ret.rephrased_options)

C14_Witness ==
    /\ Returned("rephrase_message")
    /\ message = Str("Bonjour")
    /\ Len(ret.rephrased_options) = 2
    /\ ret.rephrased_options[1].text = "Bonjour. Merci."
    /\ ret.rephrased_options[2].text = FormalGeneric

\* C15: in every option list returned by rephrase_message, each rule-based
\* option has confidence 0.8, each template option 0.7 and each generated
\* option 0.9, and a rule-based option, when present, comes before every
\* template and every generated option.
ConfidenceOf(method) ==
    IF method = "rules_based" THEN "0.8"
    ELSE IF method = "formal_template" THEN "0.7"
    ELSE "0.9"

C15_ConfidenceAndOrder ==
    (op \in {"rephrase_message", "rephrase_message_llm", "combine_and_validate"}
       /\ ~ret.raised)
    => \A k \in 1..Len(ret.rephrased_options) :
          /\ ret.rephrased_options[k].method
                \in {"rules_based", "formal_template", "llm_generated"}
          /\ ret.rephrased_options[k].confidence
                = ConfidenceOf(ret.rephrased_options[k].method)
          /\ ret.rephrased_options[k].method = "rules_based" => k = 1

C15_Witness ==
    /\ Returned("rephrase_message_llm")
    /\ Len(ret.rephrased_options) = 3
    /\ ret.rephrased_options[1].method = "rules_based"
    /\ ret.rephrased_options[1].confidence = "0.8"
    /\ ret.rephrased_options[2].method = "llm_generated"
    /\ ret.rephrased_options[3].confidence = "0.9"

\* C16: create_formal_version tests the keyword sets in the order pickup,
\* delay, difficulty, health and returns the fixed sentence of the first
\* category with a keyword contained in the case-folded message, or the
\* generic sentence when none matches; the output is always one of the five
\* fixed sentences.
Mentions(m, words) == \E w \in words : Contains(lower(m), w)

FormalCategories == <<
    <<{"récupérer", "chercher", "prendre"}, FormalPickup>>,
    <<{"retard", "en retard", "attendre"}, FormalDelay>>,
    <<{"problème", "souci", "difficulté"}, FormalDifficulty>>,
    <<{"médecin", "docteur", "santé", "malade"}, FormalHealth>> >>

C16_FirstCategoryWins ==
    op = "create_formal_version" =>
        /\ ret.text \in {FormalPickup, FormalDelay, FormalDifficulty,
                         FormalHealth, FormalGeneric}
        /\ \A k \in 1..Len(FormalCategories) :
              (/\ Mentions(message.str, FormalCategories[k][1])
               /\ \A j \in 1..(k - 1) :
                     ~Mentions(message.str, FormalCategories[j][1]))
              => ret.text = FormalCategories[k][2]
        /\ (\A k \in 1..Len(FormalCategories) :
                ~Mentions(message.str, FormalCategories[k][1]))
              => ret.text = FormalGeneric

C16_Witness ==
    /\ op = "create_formal_version"
    /\ message = Str("Malade en Retard Chercher ")
    /\ ret.text = FormalPickup

HasCourtesy(t) == \E w \in courtesy_markers : Contains(lower(t), w)

Closed(t) == (IF endswith(t, ".") THEN t ELSE t \o ".") \o " Merci."

\* C17 (as stated): for every string input, including one that the earlier
\* steps reduce to the empty string, apply_calming_rules does not raise; when
\* the text after whitespace normalization holds no courtesy marker the
\* output is that text, terminated by exactly one period, followed by
\* ' Merci.'; when a marker is present nothing is appended.
C17_ExactlyOnePeriod ==
    op = "apply_calming_rules" =>
        /\ ~ret.raised
        /\ HasCourtesy(CalmedText(message.str))
              => ret.text = CalmedText(message.str)
        /\ ~HasCourtesy(CalmedText(message.str))
              => /\ startswith(ret.text, CalmedText(message.str))
                 /\ endswith(ret.text, ". Merci.")
                 /\ ~endswith(ret.text, ".. Merci.")

\* C17 (amended): a period is added only to a text that does not already end
\* with one, so a text that ends with several periods keeps them all before
\* ' Merci.'.

C17_PolitenessClosure ==
    op = "apply_calming_rules" =>
        /\ ~ret.raised
        /\ ret.text = IF HasCourtesy(CalmedText(message.str))
                      THEN CalmedText(message.str)
                      ELSE Closed(CalmedText(message.str))

C17_Witness ==
    /\ op = "apply_calming_rules"
    /\ message = Str(" \n")
    /\ ret.text = ". Merci."

\* C18: for every input, the rule rewriter replaces each run of repeated '!'
\* by a single period and each run of repeated '?' by a single '?', so that
\* its output contains no two adjacent '!' and no two adjacent '?'.
C18_NoRepeatedPunctuation ==
    (op \in {"apply_calming_rules", "apply_typed_rules"} /\ ~ret.raised)
    => /\ ~Contains(ret.text, "!!")
       /\ ~Contains(ret.text, "??")
       /\ message.str = "!!" => startswith(ret.text, ".")
       /\ message.str = "??" => startswith(ret.text, "?")

C18_Witness ==
    /\ op = "apply_calming_rules"
    /\ message = Str(ExampleMessage)
    /\ Contains(message.str, "!!")
    /\ ~Contains(ret.text, "!")
    /\ endswith(ret.text, ". Merci.")

\* C19: the rule rewriter never fails on a string input, and for every input
\* to which none of its rules applies (no lexicon phrase, no accusatory or
\* blame construction, no repeated '!' or '?', a courtesy marker already
\* present) it returns the input unchanged except that runs of whitespace are
\* collapsed to one space and the ends are trimmed.
NoRuleApplies(m, table) ==
    /\ NoTrigger(m, table)
    /\ \A k \in 1..Len(grammar_rules) : ~Contains(lower(m), strip(grammar_rules[k].lit))
    /\ ~Contains(m, "!!") /\ ~Contains(m, "??")

WhitespaceNormalized(m) == strip(SubRuns(m, Whitespace, 1, " "))

C19_UnchangedWhenNoRule ==
    /\ op \in {"apply_calming_rules", "apply_typed_rules"} => ~ret.raised
    /\ (op = "apply_calming_rules"
           /\ NoRuleApplies(message.str, trigger_replacements)
           /\ HasCourtesy(message.str))
          => ret.text = WhitespaceNormalized(message.str)
    /\ (op = "apply_typed_rules"
           /\ NoRuleApplies(message.str, trigger_replacements_llm))
          => ret.text = WhitespaceNormalized(message.str)

\* C20: for the input "Tu es encore en retard comme d'habitude, tu ne penses
\* qu'à toi !!", detection finds the categories reproach and manipulation plus
\* punctuation excess; the rewrite output contains none of "encore",
\* "comme d'habitude", "tu ne penses qu'à toi" and ends with a single period
\* followed by ' Merci.'; and the recommendation of rephrase_message is the
\* strong recommendation to use a rewritten option.
C20_Example ==
    message = Str(ExampleMessage) =>
        /\ Returned("analyze_sentiment") =>
              {"reproches", "manipulation"} \subseteq Elems(ret.emotion_detected)
        /\ Returned("mirror_mode") =>
              "ponctuation excessive" \in Elems(ret.triggers_detected)
        /\ Returned("apply_calming_rules") =>
              /\ \A phrase \in {"encore", "comme d'habitude",
                                 "tu ne penses qu'à toi"} :
                    ~Contains(lower(ret.text), phrase)
              /\ endswith(ret.text, ". Merci.")
              /\ ~endswith(ret.text, ".. Merci.")
        /\ Returned("rephrase_message") => ret.recommendation = RecoStrong

\* what a call returns when no other call runs: the call reads the tables as
\* __init__ left them
RunAlone(method, v) == CallResult(method, v, InitialTables)

\* C21: under any interleaving of concurrent calls of analyze_sentiment,
\* rephrase_message, mirror_mode and generate_assisted_responses on the shared
\* instances, the tables keep the value __init__ gave them and every call
\* returns what the same call returns when it runs alone.
C21_SharedInstancesReadOnly ==
    /\ tables = InitialTables
    /\ \A c \in Callers :
          calls[c].pc = "done" =>
              calls[c].ret = RunAlone(calls[c].method, calls[c].message)

\* a call of generate_assisted_responses returned the generic templates while
\* another caller was inside rephrase_message
C21_Witness ==
    \E c, d \in Callers :
        /\ c # d
        /\ calls[c].pc = "done"
        /\ calls[c].method = "generate_assisted_responses"
        /\ calls[c].message = Str("On verra...")
        /\ ~calls[c].ret.raised
        /\ calls[c].ret.responses[1].text = template_responses[1]
        /\ calls[d].pc = "running"
        /\ calls[d].method = "rephrase_message"

\* the message is null or the empty string
IsNullOrEmpty(v) == v = NoneValue \/ v = Str("")

\* C22: called with a null or empty message, detection returns an empty
\* signal set and does not raise: analyze_sentiment returns empty
\* emotion_detected and trigger_words_found, detect_triggers an empty list.
C22_EmptyInputEmptySignals ==
    IsNullOrEmpty(message) =>
        /\ op = "analyze_sentiment" =>
              /\ ~ret.raised
              /\ ret.emotion_detected = << >>
              /\ ret.trigger_words_found = << >>
        /\ op = "detect_triggers" =>
              /\ ~ret.raised
              /\ ret.triggers = << >>

Occurrences(seq, x) == Cardinality({i \in 1..Len(seq) : seq[i] = x})
NoTagTwice(seq) == \A i, j \in 1..Len(seq) : seq[i] = seq[j] => i = j

C24_PunctuationExcess ==
    /\ Returned("detect_patterns") =>
          (Occurrences(ret.patterns, "exclamations_excessives") = 1
             <=> count(message.str, "!") > 2)
    /\ Returned("detect_triggers") =>
          (Occurrences(ret.triggers, "ponctuation excessive") = 1
             <=> count(message.str, "!") > 2)

\* C25: _detect_patterns reports 'questions_rhetoriques' for every message
\* that holds two '?' or more, wherever they stand (adjacent, separated by
\* text, on different lines), and for no message that holds fewer than two.
C25_RhetoricalQuestion ==
    Returned("detect_patterns") =>
        (Occurrences(ret.patterns, "questions_rhetoriques") = 1
           <=> count(message.str, "?") >= 2)

\* two results of analyze_sentiment carry the same signals
SameSignals(a, b) ==
    /\ a.raised = b.raised
    /\ ~a.raised =>
          /\ a.emotion_detected = b.emotion_detected
          /\ a.trigger_words_found = b.trigger_words_found

\* C26: the detected signals and the impact do not depend on the external
\* sentiment model: whether the pipeline is absent, raises or returns any
\* label and score, analyze_sentiment returns the emotion_detected and the
\* trigger_words_found it returns without the model, and the impact_score and
\* impact_level of mirror_mode are those computed from the message alone.
C26_ModelIndependent ==
    /\ op = "analyze_sentiment" =>
          \A p \in Pipelines : SameSignals(ret, analyze_sentiment(message, p))
    /\ Returned("mirror_mode") =>
          /\ ret.impact_score = ImpactScore(message.str)
          /\ ret.impact_level = ImpactLevel(ImpactScore(message.str))

\* the model called a message positive in which the scan found a reproach
C26_Witness ==
    /\ Returned("analyze_sentiment")
    /\ pipe.kind = "label"
    /\ ret.sentiment = "positif"
    /\ message = Str(" jamais toujours")
    /\ ret.emotion_detected = <<"reproches", "generalisation">>

\* the request answered by r was a rephrase-message that asked to save
AskedToSave(r) ==
    /\ r.route = "rephrase-message"
    /\ r.data.message_given
    /\ r.data.save_to_history = "true"

\* the rows of a table sent by user_id
RowsOf(table, user_id) ==
    LET Sent(row) == row.sender_id = user_id
    IN  SelectSeq(table, Sent)

\* C27: after any sequence of calls of the routes rephrase-message,
\* get-message-history and delete-message-history by any users, every stored
\* row has consent_to_store true and was added by a rephrase-message whose
\* body has save_to_history true, with the caller as sender_id; a
\* rephrase-message without the flag stores nothing; get-message-history of
\* user u returns only rows with sender_id u and consent_to_store true.
C27_StoredOnlyWithConsent ==
    [][/\ \A i \in 1..Len(rows') : rows'[i].consent_to_store
       /\ Len(rows') > Len(rows) =>
             /\ AskedToSave(resp')
             /\ rows' = Append(rows, rows'[Len(rows')])
             /\ rows'[Len(rows')].sender_id = resp'.user
             /\ rows'[Len(rows')].original_content = resp'.data.message
       /\ (resp'.route = "rephrase-message" /\ ~AskedToSave(resp')) =>
             rows' = rows
       /\ (resp'.route = "get-message-history" /\ resp'.status = 200) =>
             /\ rows' = rows
             /\ \A i \in 1..Len(resp'.messages) :
                   /\ resp'.messages[i].sender_id = resp'.user
                   /\ resp'.messages[i].consent_to_store
                   /\ \E j \in 1..Len(rows) : rows[j] = resp'.messages[i]
      ]_vars

\* user 1 read a history of one row while the table also held a row of user 2
C27_Witness ==
    /\ resp.route = "get-message-history"
    /\ resp.status = 200
    /\ resp.user = 1
    /\ Len(resp.messages) = 1
    /\ resp.messages[1].original_content = Str("jamais !")
    /\ Len(rows) = 2
    /\ \E i \in 1..Len(rows) : rows[i].sender_id = 2

\* C28: when delete-message-history completes successfully for user u, no
\* stored row with sender_id u remains and the rows of the other users are
\* unchanged.
C28_DeleteOwnHistoryOnly ==
    [][(resp'.route = "delete-message-history" /\ resp'.status = 200) =>
          /\ \A i \in 1..Len(rows') : rows'[i].sender_id # resp'.user
          /\ \A v \in Users \ {resp'.user} : RowsOf(rows', v) = RowsOf(rows, v)
      ]_vars

\* user 1 deleted their history and the row of user 2 is still stored
C28_Witness ==
    /\ resp.route = "delete-message-history"
    /\ resp.status = 200
    /\ resp.user = 1
    /\ Len(rows) = 1
    /\ rows[1].sender_id = 2
    /\ rows[1].consent_to_store

\* C29: in every result of rephrase_message of the local variant for a
\* message that is not empty, the sentiment of the analysis is 'hostile'
\* exactly when more than 2 triggers were detected and 'neutre' otherwise; so
\* the strong recommendation (more than 3 triggers) comes with the sentiment
\* 'hostile', and a result whose sentiment is 'neutre' never carries it.
C29_SentimentAndRecommendation ==
    (Returned("rephrase_message") /\ IsStr(message) /\ ~IsBlankStr(message)) =>
        /\ ret.analysis.sentiment
             = IF Len(ret.analysis.triggers_detected) > 2 THEN "hostile"
               ELSE "neutre"
        /\ ret.recommendation = RecoStrong => ret.analysis.sentiment = "hostile"
        /\ ret.analysis.sentiment = "neutre" => ret.recommendation # RecoStrong

\* a message with four triggers got the strong recommendation
C29_Witness ==
    /\ Returned("rephrase_message")
    /\ message = Str("JAMAIS TOUJOURS !")
    /\ Len(ret.analysis.triggers_detected) = 4
    /\ ret.analysis.sentiment = "hostile"
    /\ ret.recommendation = RecoStrong

\* C30: in every result of mirror_mode, suggested_changes is empty exactly
\* when the level is 'Faible' and holds the four fixed suggestions exactly
\* when the level is 'Modéré' or 'Élevé'; the level and the text of the
\* recommendation belong to the same band of impact_score.
C30_SuggestionsFollowLevel ==
    Returned("mirror_mode") =>
        /\ ret.suggested_changes = << >> <=> ret.impact_level = "Faible"
        /\ ret.suggested_changes = suggested_changes
              <=> ret.impact_level \in {"Modéré", "Élevé"}
        /\ ret.impact_level = "Élevé" <=>
              (ret.impact_score >= 6
                 /\ ret.recommendation = "Ce message risque de créer des tensions. Une reformulation est fortement recommandée.")
        /\ ret.impact_level = "Modéré" <=>
              (ret.impact_score \in 3..5
                 /\ ret.recommendation = "Ce message pourrait être mal perçu. Considérez une reformulation.")
        /\ ret.impact_level = "Faible" <=>
              (ret.impact_score < 3
                 /\ ret.recommendation = "Ce message semble approprié pour la communication.")

\* a message at the lower edge of the moderate band got the four suggestions
C30_Witness ==
    /\ Returned("mirror_mode")
    /\ ret.impact_score = 3
    /\ ret.impact_level = "Modéré"
    /\ Len(ret.suggested_changes) = 4

====
